---- MODULE Spec2Model ----
(***************************************************************************)
(* Model of the lip-sync engine (hooks/useLipSyncEngine), the studio page  *)
(* that drives it (app/page.tsx) and the control panel's button guards     *)
(* (components/ControlPanel.tsx).                                          *)
(*                                                                         *)
(* Every action is one macrotask of the browser's event loop: a click      *)
(* handler up to its first await on a task-resolved promise, the           *)
(* continuation after such a promise, an animation-frame callback, or an   *)
(* 'ended' event handler.  Awaits on already-settled promises (microtasks) *)
(* run inside the same action.                                             *)
(*                                                                         *)
(* Numbers: amplitudes are fixed-point, AmpScale units = 1.0.              *)
(***************************************************************************)
EXTENDS Integers, Sequences, FiniteSets, TLC

\* ---------------------------------------------------------------- bounds
MaxRequests == 2        \* engine requests issued in one run
AmpScale == 6           \* fixed-point resolution of an amplitude of 1.0
MaxTextLen == 4         \* length of the texts given to synthesiseText
MaxSourceLen == 12      \* samples of a decoded upload
MaxFrames == 5          \* frames rendered in one run of the rig
MaxIdleTime == 150      \* sixtieths of a second of frames at rest
MaxRms == 400           \* rms of an analyser window, in thousandths
ModelSampleRate == 15   \* context.sampleRate of the modelled context, in Hz
MaxPitchSteps == 24     \* quarter semitones a pitch shift goes up or down

Rid == 1..MaxRequests
RafIds == 1..(MaxRequests + 1)

\* Levels an analyser tick can deliver: clamp(..., 0, 1) of the window's RMS.
TickLevels == {0, AmpScale}

VARIABLES
  audioRef,       \* TRUE while audioRef.current holds an AudioContext
  webAudio,       \* TRUE when window.AudioContext (or webkit's) exists
  mounted,        \* FALSE once the hook's unmount cleanup has run
  contexts,       \* the AudioContexts created so far: "open" or "closed"
  requests,       \* per request id: the async call's position and outcome
  sources,        \* per request id: the buffer source it created
  sourceRef,      \* sourceRef.current: id of the held source, 0 = null
  rafRef,         \* rafRef.current: id of the requested frame, 0 = none
  rafPending,     \* animation-frame callbacks requested and not yet run
  lastClipRef,    \* lastClipRef.current: clip id, 0 = null
  lastClipState,  \* React state lastClip: clip id, 0 = null
  isBusy,         \* React state isBusy of the engine
  emitted,        \* last call of the onAmplitude callback
  amplitude,      \* page state amplitude (fixed-point)
  isPlaying,      \* page state isPlaying
  isExporting,    \* page state isExporting
  exportPc,       \* position of a running handleExport
  synText,        \* synthesiseText: argument text
  synEmotion,     \* synthesiseText: argument emotion
  synRate,        \* synthesiseText: context.sampleRate
  synPc,          \* synthesiseText: position in the function
  synWord,        \* index of the word of the outer loop
  synChar,        \* index of the character of the inner loop
  synIndex,       \* i of the sample loop
  synCursor,      \* cursor
  synOutput,      \* output: the buffer's channel data, in thousandths
  synResult,      \* the returned clip, or Null
  tfDecoded,      \* transformBufferWithEmotion: the decoded AudioBuffer
  tfEmotion,      \* transformBufferWithEmotion: argument emotion
  tfPc,           \* transformBufferWithEmotion: position in the function
  tfResult,       \* the returned clip, or Null
  rigMode,        \* AvatarCanvas prop mode: "3d" or "image"
  rigEmotion,     \* AvatarCanvas prop emotion
  rigAmplitude,   \* AvatarCanvas prop amplitude at the last frame
  rig,            \* per node of the scene: its smoothed properties
  rigTime,        \* state.clock.getElapsedTime() at the last frame
  rigDelta,       \* delta of the last frame
  rigFrames,      \* frames rendered so far
  vePreset,       \* createVariantEmotion: the argument preset
  vePc,           \* createVariantEmotion: position in the function
  veResult,       \* createVariantEmotion: the returned profile, or Null
  tickRms,        \* tick: rms of the analyser's window, in thousandths
  tickPc,         \* tick: position in the callback
  tickMapped,     \* tick: mapped, the value given to onAmplitude
  tickWindow,     \* tick: samples of the window the rms was taken over
  fqChar,         \* synthesiseText's inner loop: char, a UTF-16 code unit
  fqEmotion,      \* synthesiseText's inner loop: emotion
  fqPc,           \* position in the loop body
  fqFreq          \* freq, in units of 1/PitchScale Hz

contextVars == <<audioRef, webAudio, mounted, contexts>>
engineVars == <<contextVars, requests, sources, sourceRef, rafRef, rafPending,
                lastClipRef, lastClipState, isBusy, emitted>>
pageVars == <<amplitude, isPlaying, isExporting, exportPc>>
synVars == <<synText, synEmotion, synRate, synPc, synWord, synChar, synIndex,
             synCursor, synOutput, synResult>>
transformVars == <<tfDecoded, tfEmotion, tfPc, tfResult>>
rigVars == <<rigMode, rigEmotion, rigAmplitude, rig, rigTime, rigDelta,
             rigFrames>>
variantVars == <<vePreset, vePc, veResult>>
tickVars == <<tickRms, tickPc, tickMapped, tickWindow>>
freqVars == <<fqChar, fqEmotion, fqPc, fqFreq>>
vars == <<engineVars, pageVars, synVars, transformVars, rigVars, variantVars,
          tickVars, freqVars>>

\* What the actions of one part of the program leave alone: the variables
\* of the other parts.
appRest == <<synVars, transformVars, rigVars, variantVars, tickVars, freqVars>>
synRest == <<engineVars, pageVars, transformVars, rigVars, variantVars,
             tickVars, freqVars>>
transformRest == <<engineVars, pageVars, synVars, rigVars, variantVars,
                   tickVars, freqVars>>
rigRest == <<engineVars, pageVars, synVars, transformVars, variantVars,
             tickVars, freqVars>>
variantRest == <<engineVars, pageVars, synVars, transformVars, rigVars,
                 tickVars, freqVars>>
tickRest == <<engineVars, pageVars, synVars, transformVars, rigVars,
              variantVars, freqVars>>
freqRest == <<engineVars, pageVars, synVars, transformVars, rigVars,
              variantVars, tickVars>>

Null == [null |-> TRUE]

NoRequest == [kind |-> "none", pc |-> "idle", clip |-> 0, result |-> "none",
              text |-> <<>>, file |-> "none", pend |-> {}, stopped |-> FALSE,
              ctx |-> 0]
NoSource == [st |-> "none", ev |-> "none"]

\* Requests are numbered in the order they are issued.
Issued == {r \in Rid : requests[r].kind # "none"}
Pending == {r \in Rid : requests[r].pc \in {"decode", "resume"}}
NextRid == Cardinality(Issued) + 1
CanIssue == Cardinality(Issued) < MaxRequests
Playing == {s \in Rid : sources[s].st = "playing"}

\* ------------------------------------------------------ synthesiseText
\* Text is a sequence of UTF-16 code units; numbers of a profile are in
\* hundredths, sample values and envelopes in thousandths.
BASE_CHAR_DURATION == 14     \* 0.14 s, in hundredths
SILENCE_PADDING == 28        \* 0.28 s, in hundredths

\* The characters /\s/ and trim() treat as white space (below U+0100).
IsSpace(c) == c \in {9, 10, 11, 12, 13, 32, 160}

clamp(value, min, max) ==
  LET lo == IF value > min THEN value ELSE min
  IN IF lo < max THEN lo ELSE max

\* text.replace(/\s+/g, " "): each maximal run of white space becomes " ".
RECURSIVE collapseSpaces(_)
collapseSpaces(t) ==
  IF t = <<>> THEN <<>>
  ELSE IF IsSpace(Head(t))
    THEN IF Len(t) > 1 /\ IsSpace(t[2])
           THEN collapseSpaces(Tail(t))
           ELSE <<32>> \o collapseSpaces(Tail(t))
    ELSE <<Head(t)>> \o collapseSpaces(Tail(t))

\* String.prototype.trim()
RECURSIVE trimStart(_)
trimStart(t) ==
  IF t # <<>> /\ IsSpace(Head(t)) THEN trimStart(Tail(t)) ELSE t

RECURSIVE trimEnd(_)
trimEnd(t) ==
  IF t # <<>> /\ IsSpace(t[Len(t)])
    THEN trimEnd(SubSeq(t, 1, Len(t) - 1))
    ELSE t

trim(t) == trimEnd(trimStart(t))

content(text) == trim(collapseSpaces(text))

\* content.split(" ")
RECURSIVE split(_, _)
split(t, word) ==
  IF t = <<>> THEN <<word>>
  ELSE IF Head(t) = 32
    THEN <<word>> \o split(Tail(t), <<>>)
    ELSE split(Tail(t), Append(word, Head(t)))

words(text) == split(content(text), <<>>)

totalChars(text) == Len(content(text))

\* tempo taken from the profile as it is.
tempo_Unclamped(emotion) == emotion.tempoMultiplier

tempo(emotion) == clamp(emotion.tempoMultiplier, 65, 145)

\* totalDuration = totalChars * (BASE_CHAR_DURATION / tempo) + SILENCE_PADDING,
\* in seconds, as the exact fraction num / den.
totalDuration(text, emotion) ==
  [num |-> totalChars(text) * BASE_CHAR_DURATION * 100
             + SILENCE_PADDING * tempo(emotion),
   den |-> 100 * tempo(emotion)]

ceilDiv(a, b) == (a + b - 1) \div b

\* Math.ceil(totalDuration * sampleRate)
totalSamples(text, emotion, sampleRate) ==
  LET d == totalDuration(text, emotion)
  IN ceilDiv(d.num * sampleRate, d.den)

\* Math.floor(charDuration * sampleRate)
charSamples(emotion, sampleRate) ==
  (BASE_CHAR_DURATION * sampleRate) \div tempo(emotion)

\* The gap with the factor 6 in place of 0.6.
wordGap_Long(emotion, sampleRate) ==
  (BASE_CHAR_DURATION * sampleRate * 6) \div tempo(emotion)

\* Math.floor(charDuration * sampleRate * 0.6)
wordGap(emotion, sampleRate) ==
  (BASE_CHAR_DURATION * sampleRate * 6) \div (tempo(emotion) * 10)

\* computeEnvelope(index, total), in thousandths.
computeEnvelope(index, total) ==
  LET aN == IF total > 16 THEN 4 ELSE 1        \* attack = min(0.25, 4 / total)
      aD == IF total > 16 THEN total ELSE 4
  IN IF index * aD < aN * total
       THEN (1000 * index * aD) \div (total * aN)
     ELSE IF index * aD > (aD - aN) * total
       THEN (1000 * (total - index) * aD) \div (total * aN)
     ELSE 1000

toLowerCase(c) == IF c \in 65..90 THEN c + 32 ELSE c

\* lower in VOWEL_FREQ: a e i o u y
isVowel(c) == toLowerCase(c) \in {97, 101, 105, 111, 117, 121}

\* amplitude of one character, in thousandths.
charAmplitude(c, emotion) ==
  clamp(IF isVowel(c) THEN 600 + (emotion.mouthIntensity * 35) \div 10
                      ELSE 350 + emotion.mouthIntensity * 2,
        50, 980)

brightness(emotion) == clamp(550 + emotion.browLift * 2, 100, 1200)

consonantNoise(emotion) ==
  clamp(230 + (emotion.gestureIntensity * 15) \div 10, 120, 450)

\* One sample: clamp(voice + breath + brightnessTilt, -1, 1) in thousandths.
\* d.sv, d.st are the two sines and d.rnd is Math.random() * 2 - 1, each
\* in thousandths.
sampleValue(c, emotion, index, total, d) ==
  LET env == computeEnvelope(index, total)
      voice == (d.sv * charAmplitude(c, emotion) * env) \div 1000000
      breath == IF ~isVowel(c)
                  THEN (d.rnd * consonantNoise(emotion) * env) \div 1000000
                  ELSE (d.rnd * 20 * env) \div 1000000
      brightnessTilt == IF isVowel(c)
                          THEN (d.st * brightness(emotion) * 250) \div 1000000
                          ELSE 0
  IN clamp(voice + breath + brightnessTilt, -1000, 1000)


\* synthesiseText's return value: null, or the clip's duration and the
\* length of its buffer.
synthesiseText(text, emotion, sampleRate) ==
  IF content(text) = <<>>
    THEN Null
    ELSE [null |-> FALSE,
          duration |-> totalDuration(text, emotion),
          length |-> totalSamples(text, emotion, sampleRate)]

\* ------------------------------------------------------------ page.tsx
\* setAmplitude((prev) => prev * 0.68 + value * 0.32)
handleAmplitude_Gain(prev, value) == (prev * 68 + value * 132) \div 100

handleAmplitude(prev, value) == (prev * 68 + value * 32) \div 100

\* ------------------------------------------------- engine, as state maps
\* The part of the state the engine's synchronous helpers read and write.
Eng == [rafRef |-> rafRef, rafPending |-> rafPending, sources |-> sources,
        sourceRef |-> sourceRef, amplitude |-> amplitude, emitted |-> emitted]

SetEngRefs(e) ==
  /\ rafRef' = e.rafRef
  /\ rafPending' = e.rafPending
  /\ sources' = e.sources
  /\ sourceRef' = e.sourceRef
  /\ emitted' = e.emitted

SetEng(e) == SetEngRefs(e) /\ amplitude' = e.amplitude

\* requestAnimationFrame hands out an id no pending callback has.
FreshRaf(pend) == CHOOSE i \in 1..(Cardinality(pend) + 1) :
                    /\ i \notin pend
                    /\ \A j \in 1..(i - 1) : j \in pend

\* cancelAnalyser that cancels the frame and keeps its id in rafRef.
cancelAnalyser_KeepsRef(e) ==
  IF e.rafRef # 0 THEN [e EXCEPT !.rafPending = @ \ {e.rafRef}] ELSE e

cancelAnalyser(e) ==
  IF e.rafRef # 0
    THEN [e EXCEPT !.rafPending = @ \ {e.rafRef}, !.rafRef = 0]
    ELSE e

\* onAmplitude(value): the page's handleAmplitude, and the record of the call.
onAmplitude(e, value, by) ==
  [e EXCEPT !.amplitude = handleAmplitude(@, value),
            !.emitted = [value |-> value, by |-> by]]

\* AudioBufferSourceNode.stop(): a playing source stops and its 'ended'
\* event is queued; a source that already ended is left as it is.
stopSource(src) ==
  IF src.st = "playing" THEN [st |-> "stopped", ev |-> "queued"] ELSE src

\* stop() that leaves the requested animation frame in place.
stop_NoCancel(e) ==
  LET a == onAmplitude(e, 0, "stop")
  IN IF a.sourceRef # 0
       THEN [a EXCEPT !.sources[a.sourceRef] = stopSource(@), !.sourceRef = 0]
       ELSE a

stop(e) ==
  LET a == onAmplitude(cancelAnalyser(e), 0, "stop")
  IN IF a.sourceRef # 0
       THEN [a EXCEPT !.sources[a.sourceRef] = stopSource(@), !.sourceRef = 0]
       ELSE a

startAnalyserLoop(e) ==
  LET c == cancelAnalyser(e)
      id == FreshRaf(c.rafPending)
  IN [c EXCEPT !.rafRef = id, !.rafPending = @ \cup {id}]

\* playClip that stops the current playback before looking at the clip.
playClipSync_StopFirst(e, clip) == stop(e)

\* playClip up to its await of context.resume(): null clips return at once.
playClipSync(e, clip) == IF clip = 0 THEN e ELSE stop(e)

\* playClip after context.resume(): create and start the source of request r.
playClipResumed(e, r) ==
  startAnalyserLoop([e EXCEPT !.sources[r] = [st |-> "playing", ev |-> "none"],
                              !.sourceRef = r])

\* The context ensureContext() returns: the one audioRef holds, or a new one.
CurrentContext == IF audioRef THEN Len(contexts) ELSE Len(contexts) + 1

\* ensureContext() where the constructor exists: the first use creates the
\* context, later uses return it.
ensureContext ==
  /\ audioRef' = TRUE
  /\ contexts' = IF audioRef THEN contexts ELSE Append(contexts, "open")
  /\ UNCHANGED <<webAudio, mounted>>

NewRequest(kind, pc, clip, text, file) ==
  [kind |-> kind, pc |-> pc, clip |-> clip, result |-> "pending",
   text |-> text, file |-> file, pend |-> Pending, stopped |-> FALSE,
   ctx |-> CurrentContext]

\* ensureContext() failing quietly: the caller resolves to null.
Unsupported_Null(kind, text, file) ==
  /\ CanIssue
  /\ requests' = [requests EXCEPT ![NextRid] =
       [NewRequest(kind, "done", 0, text, file)
          EXCEPT !.result = "null", !.ctx = 0]]
  /\ UNCHANGED <<contextVars, sources, sourceRef, rafRef, rafPending,
                 lastClipRef, lastClipState, isBusy, emitted, amplitude>>

\* ensureContext() throws "Web Audio API not supported in this browser.":
\* the async caller (speakText, playFile) returns a rejected promise before
\* it touched any state.
Unsupported(kind, text, file) ==
  /\ CanIssue
  /\ requests' = [requests EXCEPT ![NextRid] =
       [NewRequest(kind, "done", 0, text, file)
          EXCEPT !.result = "error", !.ctx = 0]]
  /\ UNCHANGED <<contextVars, sources, sourceRef, rafRef, rafPending,
                 lastClipRef, lastClipState, isBusy, emitted, amplitude>>


\* ---------------------------------------------------------------- inputs
\* Characters of the texts: tab, space, 'a' (vowel), 'b' (consonant).
Alphabet == {9, 32, 97, 98}
Texts == UNION {[1..n -> Alphabet] : n \in 0..MaxTextLen}

\* Texts the page's script box or a caller of speakText may hold.
SpokenTexts == {<<>>, <<9, 32>>, <<32, 72, 105, 9>>}

\* Uploaded files: one the browser can decode, one it cannot.
Files == {"audio", "garbage"}

NeutralEmotion ==
  [tempoMultiplier |-> 100, pitchShift |-> 0, gestureIntensity |-> 100,
   mouthIntensity |-> 100, browLift |-> 0]

\* Profiles given to synthesiseText, in and out of the documented ranges.
SynEmotions ==
  {NeutralEmotion,
   [tempoMultiplier |-> 50, pitchShift |-> -600, gestureIntensity |-> 35,
    mouthIntensity |-> 40, browLift |-> -60],
   [tempoMultiplier |-> 500, pitchShift |-> 600, gestureIntensity |-> 140,
    mouthIntensity |-> 140, browLift |-> 120]}

\* Outcomes of the two sines and of Math.random() * 2 - 1 for one sample.
Draws == {[sv |-> 1000, rnd |-> 1000, st |-> 1000],
          [sv |-> -1000, rnd |-> -1000, st |-> -1000]}

\* ---------------------------------------------------------------- Init
\* The hook after its first render, whatever the browser offers.
EngineStart ==
  /\ audioRef = FALSE
  /\ mounted = TRUE
  /\ contexts = <<>>
  /\ requests = [r \in Rid |-> NoRequest]
  /\ sources = [r \in Rid |-> NoSource]
  /\ sourceRef = 0
  /\ rafRef = 0
  /\ rafPending = {}
  /\ lastClipRef = 0
  /\ lastClipState = 0
  /\ isBusy = FALSE
  /\ emitted = [value |-> 0, by |-> "none"]

\* The hook in a browser that has the Web Audio API.
EngineInit == webAudio = TRUE /\ EngineStart

PageInit ==
  /\ amplitude = 0
  /\ isPlaying = FALSE
  /\ isExporting = FALSE
  /\ exportPc = "idle"

SynIdle ==
  /\ synText = <<>>
  /\ synEmotion = NeutralEmotion
  /\ synRate = ModelSampleRate
  /\ synPc = "idle"
  /\ synWord = 0
  /\ synChar = 0
  /\ synIndex = 0
  /\ synCursor = 0
  /\ synOutput = <<>>
  /\ synResult = Null

TransformIdle ==
  /\ tfDecoded = [length |-> 1, numberOfChannels |-> 1,
                  sampleRate |-> ModelSampleRate]
  /\ tfEmotion = NeutralEmotion
  /\ tfPc = "idle"
  /\ tfResult = Null

\* The pose the scene is mounted with (the JSX of Hands, AvatarRig, FaceRig
\* and ImageBillboard).
MountPose(mode) ==
  IF mode = "3d"
    THEN [handLeft |-> [positionX |-> -12000, positionY |-> 2000,
                        positionZ |-> 0, rotationZ |-> 0, rotationX |-> 0],
          handRight |-> [positionX |-> 12000, positionY |-> 2000,
                         positionZ |-> 0, rotationZ |-> 0, rotationX |-> 0],
          torso |-> [rotationY |-> 0, rotationX |-> 0],
          head |-> [rotationX |-> 0, rotationY |-> 0, rotationZ |-> 0,
                    positionY |-> 21000],
          mouth |-> [scaleY |-> 4500, scaleX |-> 12000],
          browsLeft |-> [positionY |-> 5200, rotationZ |-> 1000],
          browsRight |-> [positionY |-> 5200, rotationZ |-> -1000],
          pupilLeft |-> [positionX |-> -3500, positionY |-> 1500],
          pupilRight |-> [positionX |-> 3500, positionY |-> 1500]]
    ELSE [plane |-> [rotationY |-> 0, rotationX |-> 0],
          mouth |-> [scaleY |-> 10000, scaleX |-> 10000, opacity |-> 1800]]

RigIdle ==
  /\ rigMode = "3d"
  /\ rigEmotion = NeutralEmotion
  /\ rigAmplitude = 0
  /\ rig = MountPose("3d")
  /\ rigTime = 0
  /\ rigDelta = 0
  /\ rigFrames = 0

VariantIdle ==
  /\ vePreset = NeutralEmotion
  /\ vePc = "idle"
  /\ veResult = Null

TickIdle ==
  /\ tickRms = 0
  /\ tickPc = "idle"
  /\ tickMapped = 0
  /\ tickWindow = 0

FreqIdle ==
  /\ fqChar = 97
  /\ fqEmotion = NeutralEmotion
  /\ fqPc = "idle"
  /\ fqFreq = 0

Init ==
  /\ EngineInit
  /\ PageInit
  /\ SynIdle
  /\ TransformIdle
  /\ RigIdle
  /\ VariantIdle
  /\ TickIdle
  /\ FreqIdle

\* --------------------------------------------------- engine entry points
\* speakText up to `await context.resume()` in playClip.  Blank text gives
\* a null clip: playClip(null) returns at once and `finally` resets isBusy
\* within the same task.
speakText(text) ==
  LET r == NextRid
      clip == IF synthesiseText(text, NeutralEmotion, ModelSampleRate) = Null
                THEN 0 ELSE r
  IN IF ~webAudio THEN Unsupported("speak", text, "none") ELSE
     /\ CanIssue
     /\ ensureContext
     /\ isBusy' = (clip # 0)
     /\ requests' = [requests EXCEPT ![r] =
          IF clip = 0
            THEN [NewRequest("speak", "done", 0, text, "none")
                    EXCEPT !.result = "null"]
            ELSE NewRequest("speak", "resume", clip, text, "none")]
     /\ SetEng(playClipSync(Eng, clip))
     /\ UNCHANGED <<lastClipRef, lastClipState>>

\* playFile up to the awaits of transformBufferWithEmotion.
playFile(file) ==
  LET r == NextRid IN
  IF ~webAudio THEN Unsupported("file", <<>>, file) ELSE
  /\ CanIssue
  /\ ensureContext
  /\ isBusy' = TRUE
  /\ requests' = [requests EXCEPT ![r] = NewRequest("file", "decode", 0, <<>>, file)]
  /\ UNCHANGED <<sources, sourceRef, rafRef, rafPending, lastClipRef,
                 lastClipState, emitted, amplitude>>

\* replay up to `await context.resume()`; kind names the handler that
\* called it ("replay" or "export").  Without a last clip it returns.
replay(kind) ==
  LET r == NextRid IN
  /\ CanIssue
  /\ lastClipRef # 0
  /\ requests' = [requests EXCEPT ![r] =
                    NewRequest(kind, "resume", lastClipRef, <<>>, "none")]
  /\ ensureContext
  /\ SetEng(playClipSync(Eng, lastClipRef))
  /\ UNCHANGED <<isBusy, lastClipRef, lastClipState>>

\* A stop command reaches every request that is still in flight.
MarkStopped == [r \in Rid |-> IF r \in Pending
                                THEN [requests[r] EXCEPT !.stopped = TRUE]
                                ELSE requests[r]]

\* ------------------------------------------------ asynchronous completions
\* transformBufferWithEmotion resolves: playFile goes on into playClip, up
\* to `await context.resume()`.
DecodeDone(r) ==
  /\ requests[r].pc = "decode"
  /\ requests[r].file = "audio"
  /\ requests' = [requests EXCEPT ![r].pc = "resume", ![r].clip = r,
                                   ![r].ctx = CurrentContext]
  /\ ensureContext
  /\ SetEng(playClipSync(Eng, r))
  /\ UNCHANGED <<lastClipRef, lastClipState, isBusy, isPlaying,
                 isExporting, exportPc, appRest>>

\* A decode failure that is caught and turned into a null result.
DecodeFail_Swallowed(r) ==
  /\ requests[r].pc = "decode"
  /\ requests[r].file = "garbage"
  /\ requests' = [requests EXCEPT ![r].pc = "done", ![r].result = "null"]
  /\ isBusy' = FALSE
  /\ UNCHANGED <<contextVars, sources, sourceRef, rafRef, rafPending, lastClipRef,
                 lastClipState, emitted, pageVars, appRest>>

\* decodeAudioData (or the offline render) rejects: `finally` resets isBusy
\* and the rejection reaches handleAudioSelection, which does not catch it.
DecodeFail(r) ==
  /\ requests[r].pc = "decode"
  /\ requests[r].file = "garbage"
  /\ requests' = [requests EXCEPT ![r].pc = "done", ![r].result = "error"]
  /\ isBusy' = FALSE
  /\ UNCHANGED <<contextVars, sources, sourceRef, rafRef, rafPending, lastClipRef,
                 lastClipState, emitted, pageVars, appRest>>

\* The rest of playClip without its lastClipRef and setLastClipState lines.
ResumeDone_NoLastClip(r) ==
  LET direct == requests[r].kind \in {"speak", "file"} IN
  /\ requests[r].pc = "resume"
  /\ SetEng(playClipResumed(Eng, r))
  /\ requests' = [requests EXCEPT ![r].pc = "done",
                    ![r].result = IF direct THEN "clip" ELSE "void"]
  /\ isBusy' = IF direct THEN FALSE ELSE isBusy
  /\ exportPc' = IF requests[r].kind = "export" THEN "recording" ELSE exportPc
  /\ UNCHANGED <<contextVars, lastClipRef, lastClipState, isPlaying,
                 isExporting, appRest>>

\* context.resume() resolves: the rest of playClip, then the caller's
\* `finally` (speakText, playFile) or continuation (handleExport).
ResumeDone(r) ==
  LET direct == requests[r].kind \in {"speak", "file"} IN
  /\ requests[r].pc = "resume"
  /\ SetEng(playClipResumed(Eng, r))
  /\ lastClipRef' = requests[r].clip
  /\ lastClipState' = requests[r].clip
  /\ requests' = [requests EXCEPT ![r].pc = "done",
                    ![r].result = IF direct THEN "clip" ELSE "void"]
  /\ isBusy' = IF direct THEN FALSE ELSE isBusy
  /\ exportPc' = IF requests[r].kind = "export" THEN "recording" ELSE exportPc
  /\ UNCHANGED <<contextVars, isPlaying, isExporting, appRest>>

\* One animation frame of the analyser loop.
Tick(id) ==
  /\ id \in rafPending
  /\ \E mapped \in (IF Playing = {} THEN {0} ELSE TickLevels) :
       LET fired == [Eng EXCEPT !.rafPending = @ \ {id}]
           told == onAmplitude(fired, mapped, "tick")
           next == FreshRaf(told.rafPending)
       IN SetEng([told EXCEPT !.rafRef = next, !.rafPending = @ \cup {next}])
  /\ UNCHANGED <<contextVars, requests, lastClipRef, lastClipState, isBusy,
                 isPlaying, isExporting, exportPc, appRest>>

\* A playing source reaches the end of its buffer: 'ended' is queued.
NaturalEnd(s) ==
  /\ sources[s].st = "playing"
  /\ contexts[requests[s].ctx] = "open"
  /\ sources' = [sources EXCEPT ![s] = [st |-> "ended", ev |-> "queued"]]
  /\ UNCHANGED <<contextVars, requests, sourceRef, rafRef, rafPending, lastClipRef,
                 lastClipState, isBusy, emitted, pageVars, appRest>>

\* source.onended of source s: cancelAnalyser(); onAmplitude(0); onEnded().
SourceEnded(s) ==
  /\ sources[s].ev = "queued"
  /\ SetEng(onAmplitude(
       cancelAnalyser([Eng EXCEPT !.sources[s].ev = "delivered"]),
       0, "ended"))
  /\ isPlaying' = FALSE
  /\ UNCHANGED <<contextVars, requests, lastClipRef, lastClipState, isBusy,
                 isExporting, exportPc, appRest>>

\* ------------------------------------------------------- page handlers
\* The control panel disables Generate Speech, Regenerate, Preview and
\* Export MP4 while isBusy || isExporting; Upload Audio is never disabled;
\* Stop is enabled while isPlaying.
PanelBusy == isBusy \/ isExporting

\* handleSpeak and handleRegenerate (same body): the script must not be
\* blank; isPlaying is reset when speakText resolves to null.
HandleSpeak(script) ==
  /\ ~PanelBusy
  /\ trim(script) # <<>>
  /\ speakText(script)
  /\ isPlaying' = (requests'[NextRid].result # "null")
  /\ UNCHANGED <<isExporting, exportPc, appRest>>

HandleAudioSelection(file) ==
  /\ playFile(file)
  /\ isPlaying' = TRUE
  /\ UNCHANGED <<isExporting, exportPc, appRest>>

HandleReplay ==
  /\ ~PanelBusy
  /\ lastClipState # 0
  /\ replay("replay")
  /\ isPlaying' = TRUE
  /\ UNCHANGED <<isExporting, exportPc, appRest>>

\* handleStop: stop(); setIsPlaying(false); setAmplitude(0).
HandleStop ==
  /\ isPlaying
  /\ SetEngRefs(stop(Eng))
  /\ requests' = MarkStopped
  /\ isPlaying' = FALSE
  /\ amplitude' = 0
  /\ UNCHANGED <<contextVars, lastClipRef, lastClipState, isBusy, isExporting,
                 exportPc, appRest>>

\* handleExport up to `await replay()`.
HandleExport ==
  /\ ~PanelBusy
  /\ lastClipState # 0
  /\ replay("export")
  /\ isExporting' = TRUE
  /\ isPlaying' = TRUE
  /\ exportPc' = "replay"
  /\ UNCHANGED appRest

\* handleExport when `new MediaRecorder(...)` throws (unsupported mimeType).
HandleExportThrows ==
  /\ ~PanelBusy
  /\ lastClipState # 0
  /\ isExporting' = TRUE
  /\ exportPc' = "failed"
  /\ UNCHANGED <<engineVars, amplitude, isPlaying, appRest>>

\* The recording stops, the encoder runs and the file is downloaded.
ExportFinish ==
  /\ exportPc = "recording"
  /\ isExporting' = FALSE
  /\ exportPc' = "idle"
  /\ UNCHANGED <<engineVars, amplitude, isPlaying, appRest>>

\* Loading or running the encoder rejects: isExporting is not reset.
ExportFail ==
  /\ exportPc = "recording"
  /\ exportPc' = "failed"
  /\ UNCHANGED <<engineVars, amplitude, isPlaying, isExporting, appRest>>

Next ==
  \/ \E script \in SpokenTexts : HandleSpeak(script)
  \/ \E file \in Files : HandleAudioSelection(file)
  \/ HandleReplay
  \/ HandleStop
  \/ HandleExport
  \/ HandleExportThrows
  \/ ExportFinish
  \/ ExportFail
  \/ \E r \in Rid : DecodeDone(r)
  \/ \E r \in Rid : DecodeFail(r)
  \/ \E r \in Rid : ResumeDone(r)
  \/ \E id \in RafIds : Tick(id)
  \/ \E s \in Rid : NaturalEnd(s)
  \/ \E s \in Rid : SourceEnded(s)

Spec == Init /\ [][Next]_vars

\* The promises handleExport awaits settle: context.resume() resolves, and
\* the recording and the encoder finish or fail.
ExportFairness ==
  /\ WF_vars(\E r \in Rid : ResumeDone(r))
  /\ WF_vars(ExportFinish \/ ExportFail)

ExportLiveSpec == Spec /\ ExportFairness

\* ---------------------------------------- the engine called directly
\* Any caller of the hook's interface: no button guards.
CallSpeakText(text) ==
  /\ speakText(text)
  /\ UNCHANGED <<isPlaying, isExporting, exportPc, appRest>>

CallPlayFile(file) ==
  /\ playFile(file)
  /\ UNCHANGED <<isPlaying, isExporting, exportPc, appRest>>

CallReplay ==
  /\ replay("replay")
  /\ UNCHANGED <<isPlaying, isExporting, exportPc, appRest>>

CallStop ==
  /\ SetEng(stop(Eng))
  /\ requests' = MarkStopped
  /\ UNCHANGED <<contextVars, lastClipRef, lastClipState, isBusy, isPlaying,
                 isExporting, exportPc, appRest>>

EngineNext ==
  \/ \E text \in SpokenTexts : CallSpeakText(text)
  \/ \E file \in Files : CallPlayFile(file)
  \/ CallReplay
  \/ CallStop
  \/ \E r \in Rid : DecodeDone(r)
  \/ \E r \in Rid : DecodeFail(r)
  \/ \E r \in Rid : ResumeDone(r)
  \/ \E id \in RafIds : Tick(id)
  \/ \E s \in Rid : NaturalEnd(s)
  \/ \E s \in Rid : SourceEnded(s)

EngineSpec == Init /\ [][EngineNext]_vars

\* ------------------------------------------------- the hook's lifetime
\* The cleanup of the hook's mount effect: stop(), then the context is
\* closed and audioRef.current set to null.  Requests in flight go on.
Unmount ==
  /\ mounted
  /\ mounted' = FALSE
  /\ SetEng(stop(Eng))
  /\ requests' = MarkStopped
  /\ audioRef' = FALSE
  /\ contexts' = IF audioRef
                   THEN [contexts EXCEPT ![Len(contexts)] = "closed"]
                   ELSE contexts
  /\ UNCHANGED <<webAudio, lastClipRef, lastClipState, isBusy, isPlaying,
                 isExporting, exportPc, appRest>>

\* context.resume() rejects because the context was closed while playClip
\* awaited it: playClip throws and the caller's `finally` resets isBusy.
ResumeFail(r) ==
  /\ requests[r].pc = "resume"
  /\ contexts[requests[r].ctx] = "closed"
  /\ requests' = [requests EXCEPT ![r].pc = "done", ![r].result = "error"]
  /\ isBusy' = IF requests[r].kind \in {"speak", "file"} THEN FALSE ELSE isBusy
  /\ UNCHANGED <<contextVars, sources, sourceRef, rafRef, rafPending,
                 lastClipRef, lastClipState, emitted, pageVars, appRest>>

\* The hook from mount to unmount and after: its interface is called while
\* the component is mounted, the awaited promises settle at any time.
SessionNext ==
  \/ \E text \in SpokenTexts : mounted /\ CallSpeakText(text)
  \/ \E file \in Files : mounted /\ CallPlayFile(file)
  \/ mounted /\ CallReplay
  \/ mounted /\ CallStop
  \/ Unmount
  \/ \E r \in Rid : DecodeDone(r)
  \/ \E r \in Rid : DecodeFail(r)
  \/ \E r \in Rid : ResumeDone(r)
  \/ \E r \in Rid : ResumeFail(r)
  \/ \E id \in RafIds : Tick(id)
  \/ \E s \in Rid : NaturalEnd(s)
  \/ \E s \in Rid : SourceEnded(s)

\* The browser may or may not offer the Web Audio API.
BrowserInit ==
  /\ webAudio \in BOOLEAN
  /\ EngineStart
  /\ PageInit
  /\ SynIdle
  /\ TransformIdle
  /\ RigIdle
  /\ VariantIdle
  /\ TickIdle
  /\ FreqIdle

SessionSpec == Init /\ [][SessionNext]_vars

\* The hook's interface called directly, in either kind of browser.
BrowserSpec == BrowserInit /\ [][EngineNext]_vars

\* ------------------------------------------- synthesiseText, step by step
\* The function runs on a text, a profile and a sample rate drawn at the
\* start; the engine and the page stand still.
SynInit ==
  /\ EngineInit
  /\ PageInit
  /\ TransformIdle
  /\ RigIdle
  /\ VariantIdle
  /\ TickIdle
  /\ FreqIdle
  /\ synText \in Texts
  /\ synEmotion \in SynEmotions
  /\ synRate = ModelSampleRate
  /\ synPc = "start"
  /\ synWord = 0
  /\ synChar = 0
  /\ synIndex = 0
  /\ synCursor = 0
  /\ synOutput = <<>>
  /\ synResult = Null

\* Lines 56-75: normalise, return null on blank text, else allocate the
\* zero-filled buffer and enter the loops.
SynBegin ==
  /\ synPc = "start"
  /\ IF content(synText) = <<>>
       THEN /\ synPc' = "done"
            /\ UNCHANGED <<synWord, synChar, synOutput>>
       ELSE /\ synPc' = "loop"
            /\ synWord' = 1
            /\ synChar' = 1
            /\ synOutput' = [k \in 1..totalSamples(synText, synEmotion, synRate)
                               |-> 0]
  /\ UNCHANGED <<synText, synEmotion, synRate, synIndex, synCursor, synResult,
                 synRest>>

SynInChar ==
  /\ synPc = "loop"
  /\ synChar <= Len(words(synText)[synWord])

\* i < charSamples && cursor + i < totalSamples
SynInSpan ==
  /\ synIndex < charSamples(synEmotion, synRate)
  /\ synCursor + synIndex < Len(synOutput)

\* One iteration of the sample loop: output[cursor + i] += clamp(...).
SynSample ==
  /\ SynInChar
  /\ SynInSpan
  /\ \E d \in Draws :
       synOutput' = [synOutput EXCEPT ![synCursor + synIndex + 1] =
          @ + sampleValue(words(synText)[synWord][synChar], synEmotion,
                          synIndex, charSamples(synEmotion, synRate), d)]
  /\ synIndex' = synIndex + 1
  /\ UNCHANGED <<synText, synEmotion, synRate, synPc, synWord, synChar,
                 synCursor, synResult, synRest>>

\* The end of a character that forgets to advance the cursor.
SynCharEnd_NoAdvance ==
  /\ SynInChar
  /\ ~SynInSpan
  /\ synChar' = synChar + 1
  /\ synIndex' = 0
  /\ UNCHANGED <<synText, synEmotion, synRate, synPc, synWord, synOutput,
                 synCursor, synResult, synRest>>

\* The sample loop of a character is over: cursor += charSamples.
SynCharEnd ==
  /\ SynInChar
  /\ ~SynInSpan
  /\ synCursor' = synCursor + charSamples(synEmotion, synRate)
  /\ synChar' = synChar + 1
  /\ synIndex' = 0
  /\ UNCHANGED <<synText, synEmotion, synRate, synPc, synWord, synOutput,
                 synResult, synRest>>

\* The characters of a word are over: cursor += gap, next word.
SynWordEnd ==
  /\ synPc = "loop"
  /\ synChar > Len(words(synText)[synWord])
  /\ synCursor' = synCursor + wordGap(synEmotion, synRate)
  /\ synWord' = synWord + 1
  /\ synChar' = 1
  /\ synPc' = IF synWord = Len(words(synText)) THEN "return" ELSE "loop"
  /\ UNCHANGED <<synText, synEmotion, synRate, synIndex, synOutput, synResult,
                 synRest>>

\* return { buffer, duration: totalDuration }
SynReturn ==
  /\ synPc = "return"
  /\ synResult' = [null |-> FALSE,
                   duration |-> totalDuration(synText, synEmotion),
                   length |-> Len(synOutput)]
  /\ synPc' = "done"
  /\ UNCHANGED <<synText, synEmotion, synRate, synWord, synChar, synIndex,
                 synCursor, synOutput, synRest>>

SynNext == SynBegin \/ SynSample \/ SynCharEnd \/ SynWordEnd \/ SynReturn

SynSpec == SynInit /\ [][SynNext]_vars

\* The synthesis of a passage where both sines and Math.random() are at
\* their maximum for every sample: the loops and the cursor do not read the
\* sample values, so they take the same steps as with any other values.
PeakDraw == [sv |-> 1000, rnd |-> 1000, st |-> 1000]

SynPeakSample ==
  /\ SynSample
  /\ synOutput'[synCursor + synIndex + 1]
       = synOutput[synCursor + synIndex + 1]
           + sampleValue(words(synText)[synWord][synChar], synEmotion,
                         synIndex, charSamples(synEmotion, synRate), PeakDraw)

SynPeakNext ==
  SynBegin \/ SynPeakSample \/ SynCharEnd \/ SynWordEnd \/ SynReturn

SynPeakSpec == SynInit /\ [][SynPeakNext]_vars

\* ------------------------------- transformBufferWithEmotion, step by step
\* Line 127: tempo, in hundredths.
transformTempo(emotion) == clamp(emotion.tempoMultiplier, 65, 145)

\* Line 131: Math.floor(decoded.length / tempo), the length given to the
\* OfflineAudioContext.
renderLength(decoded, emotion) ==
  (decoded.length * 100) \div transformTempo(emotion)

\* Decoded files: every length from one sample up, mono and stereo.
DecodedBuffers ==
  [length : 1..MaxSourceLen, numberOfChannels : {1, 2},
   sampleRate : {ModelSampleRate}]

\* Profiles given to playFile: those of the synthesiser, and the neutral
\* profile at tempi across the clamp's range.
TransformEmotions ==
  SynEmotions \cup {[NeutralEmotion EXCEPT !.tempoMultiplier = t] :
                      t \in {65, 80, 125, 145}}

\* The function runs on a decoded buffer and a profile drawn at the start;
\* the engine, the page and the synthesiser stand still.
TransformInit ==
  /\ EngineInit
  /\ PageInit
  /\ SynIdle
  /\ RigIdle
  /\ VariantIdle
  /\ TickIdle
  /\ FreqIdle
  /\ tfDecoded \in DecodedBuffers
  /\ tfEmotion \in TransformEmotions
  /\ tfPc = "start"
  /\ tfResult = Null

\* Lines 124-146: the file is decoded, the OfflineAudioContext is built for
\* decoded.numberOfChannels, floor(decoded.length / tempo) and
\* decoded.sampleRate, the graph is connected and rendering starts.  The
\* constructor throws NotSupportedError for a length of 0.
TransformBuild ==
  /\ tfPc = "start"
  /\ tfPc' = IF renderLength(tfDecoded, tfEmotion) = 0 THEN "failed"
                                                       ELSE "rendering"
  /\ UNCHANGED <<tfDecoded, tfEmotion, tfResult, transformRest>>

\* Lines 147-152: startRendering resolves with a buffer of the context's
\* length, channel count and rate; duration = rendered.length /
\* rendered.sampleRate.
TransformRendered ==
  /\ tfPc = "rendering"
  /\ tfPc' = "done"
  /\ tfResult' = [length |-> renderLength(tfDecoded, tfEmotion),
                  numberOfChannels |-> tfDecoded.numberOfChannels,
                  sampleRate |-> tfDecoded.sampleRate,
                  duration |-> [num |-> renderLength(tfDecoded, tfEmotion),
                                den |-> tfDecoded.sampleRate]]
  /\ UNCHANGED <<tfDecoded, tfEmotion, transformRest>>

TransformNext == TransformBuild \/ TransformRendered

TransformSpec == TransformInit /\ [][TransformNext]_vars

\* ------------------------------------------------ AvatarCanvas: the rig
\* Pose values are fixed-point, 10000 units = 1.0; time and frame deltas are
\* in sixtieths of a second; angles are in hundredths of a radian; a
\* profile's fields are in hundredths; rates are in tenths per second.

\* Math.sin on [0, pi], in thousandths (Bhaskara's rational approximation).
sinHalf(x) == (16000 * x * (314 - x)) \div (492980 - 4 * x * (314 - x))

\* Math.sin of a non-negative angle, in thousandths.
sin(x) ==
  LET r == x % 628
  IN IF r <= 314 THEN sinHalf(r) ELSE 0 - sinHalf(r - 314)

\* Math.cos of a non-negative angle, in thousandths.
cos(x) == sin(x + 157)

\* time * f, for a frequency f given in hundredths of a radian per second.
angle(time, f) == (time * f) \div 60

\* Math.sin(...) * c * gesture, for a coefficient c given in hundredths.
sway(s, c, gesture) == (s * c * gesture) \div 1000

\* amplitude * c, for the prop amplitude (amp, in AmpScale units) and a
\* coefficient c given in pose units.
drive(amp, c) == (amp * c) \div AmpScale

\* lerp(a, b, delta * rate)
lerp_Frozen(a, b, delta, rate) == a

lerp(a, b, delta, rate) == a + ((b - a) * delta * rate) \div 600

\* One node's properties, each moved towards its target at its rate.
smooth(node, target, rate, delta) ==
  [p \in DOMAIN node |-> lerp(node[p], target[p], delta, rate[p])]

\* Hands useFrame (lines 96-121): the targets of one hand's group.
HandsTarget(isLeft, amp, emotion, time) ==
  LET gesture == emotion.gestureIntensity
  IN [positionX |->
        sway(sin(angle(time, IF isLeft THEN 140 ELSE 120)
                 + (IF isLeft THEN 0 ELSE 105)), 45, gesture)
        + (IF isLeft THEN 0 - drive(amp, 6000) ELSE drive(amp, 6000)),
      positionY |->
        2000
        + sway(cos(angle(time, 110) + (IF isLeft THEN 63 ELSE 0)), 25, gesture)
        + drive(amp, 4000),
      positionZ |->
        sway(sin(angle(time, 80) + (IF isLeft THEN 157 ELSE 0)), 25, gesture),
      rotationZ |->
        IF isLeft THEN 5000 - drive(amp, 6000) ELSE drive(amp, 6000) - 5000,
      rotationX |->
        sway(sin(angle(time, 140)), 30, gesture) + drive(amp, 3000)]

\* Hands useFrame (lines 109-121): the rates of the lerps.
HandsRate ==
  [positionX |-> 20, positionY |-> 22, positionZ |-> 20, rotationZ |-> 30,
   rotationX |-> 30]

\* AvatarRig useFrame (lines 304-315): the targets of the torso.
AvatarRigTarget(amp, emotion, time) ==
  [rotationY |->
     sway(sin(angle(time, 60)), 15, emotion.gestureIntensity)
     + drive(amp, 3500),
   rotationX |-> (sin(angle(time, 70) + 105) * 8) \div 10 + drive(amp, 1200)]

AvatarRigRate == [rotationY |-> 30, rotationX |-> 30]

\* FaceRig useFrame (lines 155-170): the targets of the head.
headTarget(amp, emotion, time) ==
  LET expressive == emotion.gestureIntensity
  IN [rotationX |-> sway(sin(angle(time, 90)), 20, expressive)
                    + drive(amp, 4000),
      rotationY |-> sway(sin(angle(time, 50) + 157), 30, expressive)
                    + drive(amp, 3500),
      rotationZ |-> sway(sin(angle(time, 80)), 10, expressive),
      positionY |-> 21000 + drive(amp, 3000)]

headRate ==
  [rotationX |-> 20, rotationY |-> 24, rotationZ |-> 18, positionY |-> 40]

\* FaceRig useFrame (lines 172-183): the targets of the mouth.
mouthScaleY_Closing(amp, emotion) ==
  2000 - drive(amp, 8000 + emotion.mouthIntensity * 40)

mouthScaleY(amp, emotion) ==
  2000 + drive(amp, 8000 + emotion.mouthIntensity * 40)

mouthTarget(amp, emotion) ==
  [scaleY |-> mouthScaleY(amp, emotion), scaleX |-> 10000 + drive(amp, 1800)]

mouthRate == [scaleY |-> 100, scaleX |-> 60]

\* FaceRig useFrame (lines 184-209): the targets of one brow, with
\* browTilt = amplitude * 0.6.
\* The brows with the right brow's tilt and rotation given the left brow's
\* sign.
browsTarget_SameSign(isLeft, amp, emotion) ==
  LET browLift == emotion.browLift
      browTilt == drive(amp, 6000)
  IN [positionY |-> 5500 + browLift * 18 + (browTilt * 15) \div 100,
      rotationZ |-> 600 + browLift * 15]

browsTarget(isLeft, amp, emotion) ==
  LET browLift == emotion.browLift
      browTilt == drive(amp, 6000)
  IN IF isLeft
       THEN [positionY |-> 5500 + browLift * 18 + (browTilt * 15) \div 100,
             rotationZ |-> 600 + browLift * 15]
       ELSE [positionY |-> 5500 + browLift * 18 - (browTilt * 15) \div 100,
             rotationZ |-> 0 - 600 - browLift * 15]

browsRate == [positionY |-> 60, rotationZ |-> 60]

\* FaceRig useFrame (lines 210-234): the targets of one pupil.
pupilTarget(isLeft, amp, emotion, time) ==
  LET expressive == emotion.gestureIntensity
      eyeShift == drive(amp, 6000) + expressive * 15
  IN IF isLeft
       THEN [positionX |-> sway(sin(angle(time, 140)), 8, expressive)
                           + (eyeShift * 8) \div 100 - 2000,
             positionY |-> 800 + sway(sin(angle(time, 110)), 5, expressive)
                           + (eyeShift * 4) \div 100]
       ELSE [positionX |-> 2000
                           + sway(sin(angle(time, 120) + 79), 8, expressive)
                           + (eyeShift * 8) \div 100,
             positionY |-> 800
                           + sway(sin(angle(time, 105) + 52), 5, expressive)
                           + (eyeShift * 4) \div 100]

pupilRate == [positionX |-> 50, positionY |-> 50]

\* ImageBillboard useFrame (lines 402-414): the targets of the plane.
planeTarget(amp, emotion, time) ==
  [rotationY |->
     sway(sin(angle(time, 60)), 18, emotion.gestureIntensity)
     + drive(amp, 1800),
   rotationX |-> (sin(angle(time, 80) + 79) * 8) \div 10 + drive(amp, 1200)]

planeRate == [rotationY |-> 24, rotationX |-> 24]

\* ImageBillboard useFrame (lines 415-431): the targets of the portrait's
\* mouth.
portraitMouthTarget(amp, emotion) ==
  [scaleY |-> 1800 + drive(amp, 9000 + emotion.mouthIntensity * 50),
   scaleX |-> 10000 + drive(amp, 1800),
   opacity |-> 2500 + drive(amp, 3500)]

portraitMouthRate == [scaleY |-> 100, scaleX |-> 60, opacity |-> 60]

\* The targets of every node of the mounted scene for one frame: AvatarRig
\* with its two Hands and its FaceRig in 3D mode, ImageBillboard otherwise
\* (lines 490-494).
Targets(mode, amp, emotion, time) ==
  IF mode = "3d"
    THEN [handLeft |-> HandsTarget(TRUE, amp, emotion, time),
          handRight |-> HandsTarget(FALSE, amp, emotion, time),
          torso |-> AvatarRigTarget(amp, emotion, time),
          head |-> headTarget(amp, emotion, time),
          mouth |-> mouthTarget(amp, emotion),
          browsLeft |-> browsTarget(TRUE, amp, emotion),
          browsRight |-> browsTarget(FALSE, amp, emotion),
          pupilLeft |-> pupilTarget(TRUE, amp, emotion, time),
          pupilRight |-> pupilTarget(FALSE, amp, emotion, time)]
    ELSE [plane |-> planeTarget(amp, emotion, time),
          mouth |-> portraitMouthTarget(amp, emotion)]

Rates(mode) ==
  IF mode = "3d"
    THEN [handLeft |-> HandsRate, handRight |-> HandsRate,
          torso |-> AvatarRigRate, head |-> headRate, mouth |-> mouthRate,
          browsLeft |-> browsRate, browsRight |-> browsRate,
          pupilLeft |-> pupilRate, pupilRight |-> pupilRate]
    ELSE [plane |-> planeRate, mouth |-> portraitMouthRate]

\* All useFrame callbacks of the mounted scene, run for one frame.
useFrame(pose, mode, amp, emotion, time, delta) ==
  [n \in DOMAIN pose |->
     smooth(pose[n], Targets(mode, amp, emotion, time)[n], Rates(mode)[n],
            delta)]

\* The node properties whose target at amplitude 0 does not depend on the
\* clock (no Math.sin / Math.cos term): head height, mouth and brows in 3D
\* mode, the portrait's mouth in image mode.
RestingProperties(mode) ==
  IF mode = "3d"
    THEN {<<"head", "positionY">>, <<"mouth", "scaleY">>,
          <<"mouth", "scaleX">>, <<"browsLeft", "positionY">>,
          <<"browsLeft", "rotationZ">>, <<"browsRight", "positionY">>,
          <<"browsRight", "rotationZ">>}
    ELSE {<<"mouth", "scaleY">>, <<"mouth", "scaleX">>,
          <<"mouth", "opacity">>}

\* |a - b|
distance(a, b) == IF a < b THEN b - a ELSE a - b

\* Profiles given to the canvas, in and out of the documented ranges.
RigEmotions ==
  SynEmotions \cup {[tempoMultiplier |-> 100, pitchShift |-> 0,
                     gestureIntensity |-> 500, mouthIntensity |-> 500,
                     browLift |-> -300]}

\* Frame deltas, in sixtieths of a second: 60 and 30 frames per second, and
\* the first frame after a stall of a quarter of a second.
Deltas == {1, 2, 15}

\* The canvas is mounted in one of its modes with one profile.
RigInit ==
  /\ EngineInit
  /\ PageInit
  /\ SynIdle
  /\ TransformIdle
  /\ VariantIdle
  /\ TickIdle
  /\ FreqIdle
  /\ rigMode \in {"3d", "image"}
  /\ rigEmotion \in RigEmotions
  /\ rigAmplitude = 0
  /\ rig = MountPose(rigMode)
  /\ rigTime = 0
  /\ rigDelta = 0
  /\ rigFrames = 0

\* One rendered frame: the clock advances by delta and every useFrame
\* callback runs with the amplitude prop of the page's last render.
Frame(delta, amp) ==
  /\ rigFrames < MaxFrames
  /\ rigFrames' = rigFrames + 1
  /\ rigTime' = rigTime + delta
  /\ rigDelta' = delta
  /\ rigAmplitude' = amp
  /\ rig' = useFrame(rig, rigMode, amp, rigEmotion, rigTime + delta, delta)
  /\ UNCHANGED <<rigMode, rigEmotion, rigRest>>

\* The poses a rest period starts from: the mounted pose, and the pose a
\* loud passage (amplitude 1) has pulled every node to.
StartPoses(mode, emotion) ==
  {MountPose(mode), Targets(mode, AmpScale, emotion, 0)}

\* The canvas at rest: the amplitude prop stays 0 and frames arrive at a
\* steady 60 or 30 frames per second.
IdleInit ==
  /\ EngineInit
  /\ PageInit
  /\ SynIdle
  /\ TransformIdle
  /\ VariantIdle
  /\ TickIdle
  /\ FreqIdle
  /\ rigMode \in {"3d", "image"}
  /\ rigEmotion \in RigEmotions
  /\ rigAmplitude = 0
  /\ rig \in StartPoses(rigMode, rigEmotion)
  /\ rigTime = 0
  /\ rigDelta \in {1, 2}
  /\ rigFrames = 0

\* One rendered frame at rest.
IdleFrame ==
  /\ rigTime < MaxIdleTime
  /\ rigFrames' = rigFrames + 1
  /\ rigTime' = rigTime + rigDelta
  /\ rig' = useFrame(rig, rigMode, 0, rigEmotion, rigTime + rigDelta, rigDelta)
  /\ UNCHANGED <<rigMode, rigEmotion, rigAmplitude, rigDelta, rigRest>>

IdleSpec == IdleInit /\ [][IdleFrame]_vars

RigNext == \E delta \in Deltas : \E amp \in TickLevels : Frame(delta, amp)

RigSpec == RigInit /\ [][RigNext]_vars

\* A passage of one steady level: the level the first frame reads (any of
\* the AmpScale + 1 levels) is read again by every later frame.
SteadyFrame(delta, amp) ==
  /\ rigFrames = 0 \/ amp = rigAmplitude
  /\ Frame(delta, amp)

SteadyNext ==
  \E delta \in Deltas : \E amp \in 0..AmpScale : SteadyFrame(delta, amp)

SteadySpec == RigInit /\ [][SteadyNext]_vars

\* ------------------------------------------- page: createVariantEmotion
\* Outcomes of one Math.random() call, in thousandths: [0, 1).
Randoms == {0, 500, 999}

\* The five Math.random() calls of one createVariantEmotion, in call order.
VariantDraws ==
  [tempo : Randoms, pitch : Randoms, gesture : Randoms, mouth : Randoms,
   brow : Randoms]

\* jitter() = 0.92 + Math.random() * 0.16, applied to a field in hundredths.
jitter(value, random) == (value * (92000 + 16 * random)) \div 100000

\* createVariantEmotion (lines 19-34): a new profile, the preset's other
\* fields copied by the spread.
createVariantEmotion_Unclamped(preset, draws) ==
  [preset EXCEPT
     !.tempoMultiplier = jitter(@, draws.tempo),
     !.pitchShift = @ + ((draws.pitch - 500) * 16) \div 100,
     !.gestureIntensity = jitter(@, draws.gesture),
     !.mouthIntensity = jitter(@, draws.mouth),
     !.browLift = @ + ((draws.brow - 500) * 4) \div 100]

createVariantEmotion(preset, draws) ==
  [preset EXCEPT
     !.tempoMultiplier = clamp(jitter(@, draws.tempo), 65, 145),
     !.pitchShift = clamp(@ + ((draws.pitch - 500) * 16) \div 100, -600, 600),
     !.gestureIntensity = clamp(jitter(@, draws.gesture), 35, 140),
     !.mouthIntensity = clamp(jitter(@, draws.mouth), 40, 140),
     !.browLift = clamp(@ + ((draws.brow - 500) * 4) \div 100, -60, 120)]

\* The function runs on a preset drawn at the start.
VariantInit ==
  /\ EngineInit
  /\ PageInit
  /\ SynIdle
  /\ TransformIdle
  /\ RigIdle
  /\ TickIdle
  /\ FreqIdle
  /\ vePreset \in RigEmotions
  /\ vePc = "start"
  /\ veResult = Null

\* One call of createVariantEmotion (from handleSpeak, handleRegenerate or
\* handleAudioSelection): the preset object is read, never written.
CreateVariant(draws) ==
  /\ vePc = "start"
  /\ vePc' = "done"
  /\ veResult' = createVariantEmotion(vePreset, draws)
  /\ UNCHANGED <<vePreset, variantRest>>

VariantNext == \E draws \in VariantDraws : CreateVariant(draws)

VariantSpec == VariantInit /\ [][VariantNext]_vars

\* ------------------------------------------ startAnalyserLoop: one tick
\* Math.pow(x, 1.2) rounded down, x and the result in AmpScale units: the
\* largest y with y^5 <= x^6 (in units: y^5 * AmpScale <= x^6).
pow12(x) ==
  CHOOSE y \in 0..(4 * AmpScale) :
    /\ y ^ 5 * AmpScale <= x ^ 6
    /\ (y + 1) ^ 5 * AmpScale > x ^ 6

\* Line 232: mapped = clamp(Math.pow(rms * 4.2, 1.2), 0, 1), for rms in
\* thousandths; the result is in AmpScale units.
mapped_Unclamped(rms) == pow12((rms * 42 * AmpScale) \div 10000)

mapped(rms) == clamp(pow12((rms * 42 * AmpScale) \div 10000), 0, AmpScale)

\* Line 185: analyserRef.current.fftSize = 1024
fftSize == 1024

\* AnalyserNode.frequencyBinCount: half the FFT size.
frequencyBinCount == fftSize \div 2

\* Lines 222-223: the array the tick reads into.
bufferLength == frequencyBinCount

\* Line 226: getFloatTimeDomainData fills the array with the most recent
\* samples, at most fftSize of them; lines 227-231 take the rms over
\* bufferLength entries.
windowSamples == IF bufferLength < fftSize THEN bufferLength ELSE fftSize

\* The callback runs on a window whose rms is drawn at the start.
TickInit ==
  /\ EngineInit
  /\ PageInit
  /\ SynIdle
  /\ TransformIdle
  /\ RigIdle
  /\ VariantIdle
  /\ FreqIdle
  /\ tickRms \in 0..MaxRms
  /\ tickPc = "start"
  /\ tickMapped = 0
  /\ tickWindow = 0

\* Lines 226-233: rms of the window, mapped, onAmplitude(mapped).
TickMap ==
  /\ tickPc = "start"
  /\ tickPc' = "done"
  /\ tickMapped' = mapped(tickRms)
  /\ tickWindow' = windowSamples
  /\ UNCHANGED <<tickRms, tickRest>>

TickSpec == TickInit /\ [][TickMap]_vars

\* ----------------------------------- synthesiseText: a character's pitch
\* Ratios are fixed-point, PitchScale units = 1.0; a profile's pitchShift
\* is in hundredths of a semitone and moves in steps of a quarter semitone.
PitchScale == 10000
PitchStep == 25
QuarterSemitone == 10145     \* 2^(1/48), in units of 1/PitchScale

\* 2^(k/48) for k >= 0, by repeated multiplication.
RECURSIVE powSteps(_)
powSteps(k) ==
  IF k = 0 THEN PitchScale
           ELSE (powSteps(k - 1) * QuarterSemitone) \div PitchScale

\* Math.pow(2, emotion.pitchShift / 12)
pitchRatio(emotion) ==
  LET k == emotion.pitchShift \div PitchStep
  IN IF k >= 0 THEN powSteps(k)
               ELSE (PitchScale * PitchScale) \div powSteps(-k)

\* VOWEL_FREQ[lower], or 140 + (lower.charCodeAt(0) % 25) * 4
baseFreq(char) ==
  LET lower == toLowerCase(char)
  IN CASE lower = 97 -> 210
       [] lower = 101 -> 230
       [] lower = 105 -> 260
       [] lower = 111 -> 190
       [] lower = 117 -> 170
       [] lower = 121 -> 240
       [] OTHER -> 140 + (lower % 25) * 4

\* Lines 126 and 136: an AudioBufferSourceNode played at playbackRate
\* pitchRatio / tempo consumes its buffer in ceil(length / playbackRate)
\* output samples.
sourceSpan(decoded, emotion) ==
  ceilDiv(decoded.length * transformTempo(emotion) * PitchScale,
          100 * pitchRatio(emotion))

\* freq that follows the size of the shift, up or down.
freq_Abs(char, emotion) ==
  LET up == [emotion EXCEPT !.pitchShift = IF @ < 0 THEN -@ ELSE @]
  IN IF isVowel(char) THEN baseFreq(char) * pitchRatio(up)
                      ELSE (baseFreq(char) * pitchRatio(up) * 92) \div 100

\* freq = baseFreq * Math.pow(2, pitchShift / 12) * (isVowel ? 1 : 0.92)
freq(char, emotion) ==
  IF isVowel(char) THEN baseFreq(char) * pitchRatio(emotion)
                   ELSE (baseFreq(char) * pitchRatio(emotion) * 92) \div 100

\* Characters of a word: vowels and consonants of both cases, a digit.
FreqChars == {65, 97, 98, 100, 105, 117, 122, 55}

\* Pitch shifts of a profile: -6 to 6 semitones (the page's clamp).
PitchShifts == {PitchStep * k : k \in (-MaxPitchSteps)..MaxPitchSteps}

WithPitch(pitchShift) == [NeutralEmotion EXCEPT !.pitchShift = pitchShift]

FreqInit ==
  /\ EngineInit
  /\ PageInit
  /\ SynIdle
  /\ TransformIdle
  /\ RigIdle
  /\ VariantIdle
  /\ TickIdle
  /\ fqChar \in FreqChars
  /\ fqEmotion \in {WithPitch(p) : p \in PitchShifts}
  /\ fqPc = "start"
  /\ fqFreq = 0

\* Lines 79-86 for one character.
FreqCompute ==
  /\ fqPc = "start"
  /\ fqPc' = "done"
  /\ fqFreq' = freq(fqChar, fqEmotion)
  /\ UNCHANGED <<fqChar, fqEmotion, freqRest>>

FreqSpec == FreqInit /\ [][FreqCompute]_vars

\* ================================================================ claims

\* C1: after any interleaving of speak, upload, replay and stop, every
\* source that has been started and has neither stopped nor ended is the
\* one held in sourceRef (so at most one source is audible and stop() can
\* silence it).
C1_OnlyHeldSourceAudible ==
  \A s \in Rid : sources[s].st = "playing" => sourceRef = s

\* C2: if request b was issued while request a was still pending, then once
\* both have settled with a clip (and b is the newest request) the playing
\* source and lastClip are b's, whichever finished first.
C2_NewestRequestWins ==
  \A a \in Rid : \A b \in Rid :
    ( /\ a \in requests[b].pend
      /\ b = Cardinality(Issued)
      /\ requests[a].pc = "done" /\ requests[a].result \in {"clip", "void"}
      /\ requests[b].pc = "done" /\ requests[b].result \in {"clip", "void"} )
    => /\ lastClipRef = requests[b].clip
       /\ lastClipState = requests[b].clip
       /\ Playing \subseteq {b}

\* C3: a request that was in flight when stop was invoked never starts a
\* source afterwards.
C3_StoppedRequestStartsNothing ==
  \A r \in Rid : requests[r].stopped => sources[r].st = "none"

\* C4: when the 'ended' event of a source that was stopped is handled while
\* the clip that replaced it is playing, the analyser loop is not cancelled,
\* no excitation is emitted and playback-ended is not signalled to the page.
C4_StaleEndedIgnored ==
  [][\A s \in Rid :
       ( /\ sources[s].st = "stopped"
         /\ sources[s].ev = "queued"
         /\ sources'[s].ev = "delivered"
         /\ sourceRef \in Rid \ {s}
         /\ sources[sourceRef].st = "playing" )
       => /\ rafPending' = rafPending
          /\ rafRef' = rafRef
          /\ emitted' = emitted
          /\ isPlaying' = isPlaying]_vars

\* C5: when stop() runs while a clip is playing, the requested analyser
\* frame is cancelled and the value delivered to the amplitude callback is
\* 0; after handleStop the page's amplitude is 0; and no analyser frame is
\* requested again (so no tick delivers a value) until a source is started.
C5_StopSilencesAnalyser ==
  [][ /\ (\E s \in Rid : sources[s].st = "playing" /\ sources'[s].st = "stopped")
         => /\ rafPending' = {}
            /\ rafRef' = 0
            /\ emitted' = [value |-> 0, by |-> "stop"]
      /\ (isPlaying /\ ~isPlaying' /\ emitted'.by = "stop")
         => /\ amplitude' = 0
            /\ rafPending' = {}
      /\ (rafPending = {} /\ rafPending' # {})
         => \E r \in Rid : sources[r].st = "none" /\ sources'[r].st = "playing"
    ]_vars

\* C5 witness: handleStop has run on a playing clip.
C5_Witness ==
  /\ \E s \in Rid : sources[s].st = "stopped"
  /\ Pending = {}
  /\ emitted = [value |-> 0, by |-> "stop"]
  /\ ~isPlaying
  /\ amplitude = 0
  /\ rafPending = {}

\* C6: after a clip has ended naturally and nothing else plays or is in
\* flight, the amplitude the page passes to the renderer is 0.
C6_EndedRelaxesToZero ==
  ( /\ Pending = {}
    /\ Playing = {}
    /\ rafPending = {}
    /\ \A s \in Rid : sources[s].ev # "queued"
    /\ emitted.by = "ended" )
  => amplitude = 0

\* C7: a playFile whose bytes cannot be decoded settles with the error: no
\* clip, no source, lastClip as before, and isBusy false when it settles.
C7_DecodeErrorPropagates ==
  /\ [](\A r \in Rid :
         (requests[r].file = "garbage" /\ requests[r].pc = "done")
         => /\ requests[r].result = "error"
            /\ requests[r].clip = 0
            /\ sources[r].st = "none"
            /\ lastClipRef # r)
  /\ [][\A r \in Rid :
         (requests[r].file = "garbage" /\ requests[r].pc = "decode"
            /\ requests'[r].pc = "done")
         => /\ lastClipRef' = lastClipRef
            /\ lastClipState' = lastClipState
            /\ sources' = sources
            /\ sourceRef' = sourceRef
            /\ ~isBusy']_vars

\* C7 witness: an upload has failed to decode while an earlier clip plays.
C7_Witness ==
  \E r \in Rid : /\ requests[r].result = "error"
                 /\ Playing # {}
                 /\ lastClipRef \in Playing

\* C8: speakText returns null exactly when every character of the text is
\* white space; such a call changes no source, no analyser frame, emits
\* nothing, leaves lastClip alone and leaves isBusy false.
C8_BlankTextIsNoOp ==
  /\ [](\A r \in Rid :
         requests[r].kind = "speak"
         => ((requests[r].result = "null")
              <=> (\A i \in 1..Len(requests[r].text) :
                      IsSpace(requests[r].text[i]))))
  /\ [][\A r \in Rid :
         (requests[r].kind = "none" /\ requests'[r].result = "null")
         => /\ sources' = sources
            /\ sourceRef' = sourceRef
            /\ rafPending' = rafPending
            /\ rafRef' = rafRef
            /\ emitted' = emitted
            /\ lastClipRef' = lastClipRef
            /\ lastClipState' = lastClipState
            /\ ~isBusy']_vars

\* C8 witness: speakText on white-space text returned null while a clip
\* keeps playing.
C8_Witness ==
  \E r \in Rid : /\ requests[r].result = "null"
                 /\ Len(requests[r].text) > 0
                 /\ sourceRef \in Playing
                 /\ rafPending # {}

\* C9: for non-blank text the clip's duration is
\* n * 0.14 / clamp(tempoMultiplier, 0.65, 1.45) + 0.28 with n the length of
\* the normalised text (characters outside white space, plus one space
\* between words), and the buffer holds exactly ceil(duration * sampleRate)
\* samples.
C9_DurationAndLength ==
  LET isWordStart(i) == /\ ~IsSpace(synText[i])
                        /\ (i = 1 \/ IsSpace(synText[i - 1]))
      nWords == Cardinality({i \in 1..Len(synText) : isWordStart(i)})
      nChars == Cardinality({i \in 1..Len(synText) : ~IsSpace(synText[i])})
      n == nChars + nWords - 1
      tm == synEmotion.tempoMultiplier
      t == IF tm < 65 THEN 65 ELSE IF tm > 145 THEN 145 ELSE tm
      num == n * 1400 + 28 * t
      den == 100 * t
  IN (synPc = "done" /\ nWords > 0)
     => /\ synResult.null = FALSE
        /\ synResult.duration.num * den = num * synResult.duration.den
        /\ synResult.length = Len(synOutput)
        /\ synResult.length * den >= num * synRate
        /\ (synResult.length - 1) * den < num * synRate

\* C9 witness: a clip for text with extra white space and a tempo above the
\* range.
C9_Witness ==
  /\ synPc = "done"
  /\ synResult.null = FALSE
  /\ synEmotion.tempoMultiplier > 145
  /\ Len(synText) > totalChars(synText)
  /\ Len(words(synText)) > 1

\* C10: every sample of the buffer lies in [-1, 1] at every point of the
\* synthesis.
C10_SamplesInRange ==
  \A k \in 1..Len(synOutput) : synOutput[k] >= -1000 /\ synOutput[k] <= 1000

\* C10 witness: a finished two-word clip with a sample clipped at 1 and one
\* at -1.
C10_Witness ==
  /\ synPc = "done"
  /\ Len(words(synText)) > 1
  /\ \E k \in 1..Len(synOutput) : synOutput[k] = 1000
  /\ \E k \in 1..Len(synOutput) : synOutput[k] = -1000
\* C11: the transformed clip's buffer has ceil(originalLength /
\* clamp(tempoMultiplier, 0.65, 1.45)) samples, at the source's sample rate
\* and channel count, for every source length and tempo.
C11_TransformedLengthIsCeil ==
  tfPc = "done"
    => /\ tfResult.length
            = ceilDiv(tfDecoded.length * 100,
                      clamp(tfEmotion.tempoMultiplier, 65, 145))
       /\ tfResult.sampleRate = tfDecoded.sampleRate
       /\ tfResult.numberOfChannels = tfDecoded.numberOfChannels

\* C12: on every frame and for every node property, the new smoothed value
\* is actual + (target - actual) * min(1, frameDelta * rate), and so lies
\* between the old value and the target: it never passes the target.
C12_SmoothingNeverPassesTarget ==
  [][rigFrames' > rigFrames
       => LET target == Targets(rigMode, rigAmplitude', rigEmotion, rigTime')
              rate == Rates(rigMode)
          IN \A n \in DOMAIN rig : \A p \in DOMAIN rig[n] :
               LET t == IF rigDelta' * rate[n][p] < 600
                          THEN rigDelta' * rate[n][p] ELSE 600
                   lo == IF rig[n][p] < target[n][p] THEN rig[n][p]
                                                     ELSE target[n][p]
                   hi == IF rig[n][p] < target[n][p] THEN target[n][p]
                                                     ELSE rig[n][p]
               IN /\ rig'[n][p]
                       = rig[n][p] + ((target[n][p] - rig[n][p]) * t) \div 600
                  /\ lo <= rig'[n][p]
                  /\ rig'[n][p] <= hi]_vars

\* C13: once the amplitude given to the canvas is 0, every frame leaves each
\* node property with a clock-independent idle target (mouth scale x/y, head
\* height, brow position and rotation, portrait mouth scale and opacity) no
\* further from that target than it was before the frame, for every frame
\* delta.
C13_RelaxesMonotonically ==
  [][(rigFrames' > rigFrames /\ rigAmplitude' = 0)
       => LET idle == Targets(rigMode, 0, rigEmotion, rigTime')
          IN \A q \in RestingProperties(rigMode) :
               distance(rig'[q[1]][q[2]], idle[q[1]][q[2]])
                 <= distance(rig[q[1]][q[2]], idle[q[1]][q[2]])]_vars

C15_MouthScaleNotNegative ==
  ( /\ rigEmotion.gestureIntensity \in 35..140
    /\ rigEmotion.mouthIntensity \in 40..140
    /\ rigEmotion.browLift \in -60..120
    /\ rigAmplitude \in 0..AmpScale )
    => rig.mouth.scaleY >= 0

\* C16: the pose formulas use gestureIntensity, mouthIntensity and browLift
\* clamped to [0.35, 1.4], [0.4, 1.4] and [-0.6, 1.2]: the targets of every
\* frame equal the targets computed from the clamped profile, also for a
\* profile whose fields are out of range.
C16_TargetsUseClampedProfile ==
  LET clamped == [rigEmotion EXCEPT
                    !.gestureIntensity = clamp(@, 35, 140),
                    !.mouthIntensity = clamp(@, 40, 140),
                    !.browLift = clamp(@, -60, 120)]
  IN rigFrames > 0
       => Targets(rigMode, rigAmplitude, rigEmotion, rigTime)
            = Targets(rigMode, rigAmplitude, clamped, rigTime)

\* C17: createVariantEmotion returns, for every preset (also one out of
\* range) and every random draw, a profile with tempoMultiplier in
\* [0.65, 1.45], pitchShift in [-6, 6], gestureIntensity in [0.35, 1.4],
\* mouthIntensity in [0.4, 1.4] and browLift in [-0.6, 1.2], and the preset
\* it was given is never changed.
C17_VariantInRange ==
  /\ [](vePc = "done"
          => /\ veResult.tempoMultiplier \in 65..145
             /\ veResult.pitchShift \in -600..600
             /\ veResult.gestureIntensity \in 35..140
             /\ veResult.mouthIntensity \in 40..140
             /\ veResult.browLift \in -60..120)
  /\ [][vePreset' = vePreset]_vars

\* C17 witness: a variant of a preset that is out of range in three fields,
\* clamped at the bounds and differing from the preset, which still holds
\* the values it was given.
C17_Witness ==
  /\ vePc = "done"
  /\ vePreset.gestureIntensity = 500
  /\ vePreset.browLift = -300
  /\ veResult.gestureIntensity = 140
  /\ veResult.browLift = -60
  /\ veResult.tempoMultiplier # vePreset.tempoMultiplier

\* C18: for a profile with mouthIntensity in [0.4, 1.4] and the same elapsed
\* time, the target of the mouth's vertical scale (3D mouth:
\* 0.2 + e * (0.8 + 0.4 * mouthIntensity); portrait mouth likewise) is
\* strictly increasing in the amplitude e; in particular the target at
\* e = 0.9 exceeds the target at e = 0.1.
C18_MouthOpensWithAmplitude ==
  LET scaleY(e) == IF rigMode = "3d"
                     THEN mouthTarget(e, rigEmotion).scaleY
                     ELSE portraitMouthTarget(e, rigEmotion).scaleY
      intensity == rigEmotion.mouthIntensity
  IN intensity \in 40..140
       => /\ \A e \in 0..(AmpScale - 1) : scaleY(e) < scaleY(e + 1)
          /\ scaleY((9 * AmpScale) \div 10) > scaleY(AmpScale \div 10)
          /\ rigMode = "3d"
               => \A e \in 0..AmpScale :
                    scaleY(e)
                      = 2000 + (e * (8000 + 40 * intensity)) \div AmpScale

\* C18 witness: a frame at full amplitude with an in-range profile has
\* opened the 3D mouth beyond the scale it was mounted with.
C18_Witness ==
  /\ rigFrames > 0
  /\ rigMode = "3d"
  /\ rigAmplitude = AmpScale
  /\ rigEmotion.mouthIntensity \in 40..140
  /\ rig.mouth.scaleY > 4500

\* C19: for every rms >= 0 the mapped excitation
\* clamp((rms * 4.2)^1.2, 0, 1) lies in [0, 1], and rms1 < rms2 implies
\* mapped(rms1) <= mapped(rms2).
C19_MappingBoundedMonotonic ==
  tickPc = "done"
    => /\ tickMapped \in 0..AmpScale
       /\ \A rms2 \in 0..MaxRms : tickRms < rms2 => tickMapped <= mapped(rms2)

\* C19 witness: a window mapped strictly inside (0, 1), and below the value
\* of a louder window.
C19_Witness ==
  /\ tickPc = "done"
  /\ tickMapped > 0
  /\ tickMapped < AmpScale
  /\ \E rms2 \in 0..MaxRms : tickRms < rms2 /\ tickMapped < mapped(rms2)

\* C20: in every reachable state, after any sequence of analyser ticks,
\* stops, natural ends and replays, the value the engine last gave to the
\* amplitude callback and the page's smoothed amplitude, which the canvas
\* receives, both lie in [0, 1].
C20_AmplitudesInUnitRange ==
  /\ emitted.value \in 0..AmpScale
  /\ amplitude \in 0..AmpScale

\* C20 witness: a replayed clip is playing, its analyser tick has delivered
\* the full level and the page's amplitude has followed it above zero.
C20_Witness ==
  /\ \E r \in Rid : requests[r].kind = "replay" /\ sources[r].st = "playing"
  /\ emitted = [value |-> AmpScale, by |-> "tick"]
  /\ amplitude > 0
  /\ amplitude < AmpScale


\* C21: a context is created only by the first use, at most one context is
\* open at a time, and once the hook is unmounted no context is open and no
\* source is playing, whatever was pending at the unmount.
OpenContexts == {i \in 1..Len(contexts) : contexts[i] = "open"}

C21_NoContextAfterTeardown ==
  /\ Issued = {} => contexts = <<>>
  /\ Cardinality(OpenContexts) <= 1
  /\ ~mounted => OpenContexts = {} /\ Playing = {}

C23_FrequencyIncreasesWithPitch ==
  fqPc = "done" =>
    \A p \in PitchShifts :
      /\ p < fqEmotion.pitchShift
           => freq(fqChar, [fqEmotion EXCEPT !.pitchShift = p]) < fqFreq
      /\ p > fqEmotion.pitchShift
           => freq(fqChar, [fqEmotion EXCEPT !.pitchShift = p]) > fqFreq

C23_Witness ==
  /\ fqPc = "done"
  /\ ~isVowel(fqChar)
  /\ fqEmotion.pitchShift = -PitchStep
  /\ fqFreq > 0

\* C24: whenever a buffer source is playing, the page's isPlaying is true,
\* so the Stop button (enabled while isPlaying) can stop it.
C24_PlayingShowsAsPlaying == Playing # {} => isPlaying

\* C25: once a speakText or playFile call of the page has failed and nothing
\* plays, is in flight or waits to be delivered, isPlaying is false.
C25_FailedCallClearsIsPlaying ==
  ( /\ \E r \in Rid : requests[r].result = "error"
    /\ Playing = {}
    /\ Pending = {}
    /\ \A s \in Rid : sources[s].ev # "queued" )
  => ~isPlaying

\* C26: isBusy is true exactly while at least one speakText or playFile
\* request has been issued and has not settled.
C26_BusyWhilePending ==
  isBusy <=> (\E r \in Pending : requests[r].kind \in {"speak", "file"})

\* C27: lastClip (the ref and the state) changes only in a step in which
\* playClip starts a source, and every such step makes it the clip of that
\* source; stop, a natural end, blank text, a failed decode and a replay
\* without a last clip start no source and leave it as it was.
C27_LastClipFollowsStartedSource ==
  [][ /\ (lastClipRef' # lastClipRef \/ lastClipState' # lastClipState)
         => \E r \in Rid : /\ sources[r].st = "none"
                           /\ sources'[r].st = "playing"
      /\ \A r \in Rid :
           (sources[r].st = "none" /\ sources'[r].st = "playing")
           => /\ lastClipRef' = requests[r].clip
              /\ lastClipState' = requests[r].clip
              /\ requests[r].clip # 0
    ]_vars

\* C27 witness: the first clip is still the last clip after it was stopped
\* and a later upload failed to decode.
C27_Witness ==
  /\ lastClipRef = 1 /\ lastClipState = 1
  /\ sources[1].st = "stopped"
  /\ \E r \in Rid : requests[r].result = "error"

\* C28: without a pitch shift the rendered buffer is long enough for the
\* whole source at the rate it is played at: the output samples the source
\* needs do not exceed the buffer's length.
C28_RenderHoldsWholeSource ==
  (tfPc = "done" /\ tfEmotion.pitchShift = 0)
  => sourceSpan(tfDecoded, tfEmotion) <= tfResult.length

\* C29: every run of handleExport that sets isExporting to true sets it
\* back to false in the end, also when the recorder cannot be created or
\* the encoder fails.
C29_ExportingEventuallyReset == isExporting ~> ~isExporting

\* C30: at most one analyser frame callback is pending and rafRef holds its
\* id, 0 when none is pending; while none is pending (after cancelAnalyser,
\* before the next startAnalyserLoop) no tick runs and the last value
\* delivered is not a tick's.
C30_OneFramePending ==
  /\ [](/\ Cardinality(rafPending) <= 1
        /\ rafPending = (IF rafRef = 0 THEN {} ELSE {rafRef})
        /\ rafRef = 0 => emitted.by # "tick")
  /\ [][rafRef = 0 => emitted'.by # "tick"]_vars

\* C30 witness: ticks have raised the amplitude, then the clip ended and its
\* onended handler cancelled the loop.
C30_Witness ==
  /\ rafRef = 0
  /\ rafPending = {}
  /\ emitted.by = "ended"
  /\ amplitude > 0

\* C31: at every point of the synthesis the cursor is the sum of the spans
\* and gaps passed so far (so it never decreases and spans do not overlap),
\* every index written so far is below the write position of the current
\* character and inside the buffer, the samples from that position on are
\* untouched, and the full span of the current character fits in the
\* buffer: the bounds guard never ends a sample loop early.
C31_SpansFitInBuffer ==
  LET cs == charSamples(synEmotion, synRate)
      ws == words(synText)
      RECURSIVE charsBefore(_)
      charsBefore(w) == IF w <= 1 THEN 0
                        ELSE charsBefore(w - 1) + Len(ws[w - 1])
  IN synPc = "loop" =>
       /\ synCursor = (charsBefore(synWord) + synChar - 1) * cs
                        + (synWord - 1) * wordGap(synEmotion, synRate)
       /\ synIndex <= cs
       /\ synCursor + synIndex <= Len(synOutput)
       /\ \A k \in 1..Len(synOutput) :
            k > synCursor + synIndex => synOutput[k] = 0
       /\ SynInChar => synCursor + cs <= Len(synOutput)

\* C31 witness: the last character of a two-word text at the slowest tempo
\* has been written in full.
C31_Witness ==
  /\ synPc = "loop"
  /\ synWord = 2
  /\ synWord = Len(words(synText))
  /\ synChar = Len(words(synText)[synWord])
  /\ synEmotion.tempoMultiplier < 65
  /\ synIndex = charSamples(synEmotion, synRate)
  /\ synOutput[synCursor + synIndex] # 0

\* C32: every character starts a silent gap (60% of a character's span)
\* after the end of the span of the character before it, also within a
\* word: the n-th character synthesised starts at (n - 1) spans and gaps.
C32_GapAfterEachCharacter ==
  LET ws == words(synText)
      RECURSIVE charsBefore(_)
      charsBefore(w) == IF w <= 1 THEN 0
                        ELSE charsBefore(w - 1) + Len(ws[w - 1])
  IN SynInChar =>
       synCursor = (charsBefore(synWord) + synChar - 1)
                     * (charSamples(synEmotion, synRate)
                          + wordGap(synEmotion, synRate))

\* C33: each analyser tick takes the rms over a window of exactly 1024
\* time-domain samples.
C33_WindowIs1024Samples == tickPc = "done" => tickWindow = 1024

\* C34: every periodic idle term of a target is multiplied by
\* gestureIntensity, so with gestureIntensity scaled to 0 and excitation 0
\* no target of the mounted scene varies with the elapsed time.
C34_IdleTermsScaleWithGesture ==
  LET still == [rigEmotion EXCEPT !.gestureIntensity = 0]
  IN rigFrames > 0
       => Targets(rigMode, 0, still, rigTime) = Targets(rigMode, 0, still, 0)


\* C35: for every excitation and browLift the brow targets are mirrored:
\* the vertical targets are 0.55 + browLift * 0.18 plus (left) and minus
\* (right) excitation * 0.6 * 0.15, and the right brow's rotation target is
\* the negative of the left brow's.
C35_BrowsMirrored ==
  LET now == Targets(rigMode, rigAmplitude, rigEmotion, rigTime)
      level == 5500 + rigEmotion.browLift * 18
      tilt == (drive(rigAmplitude, 6000) * 15) \div 100
  IN (rigMode = "3d" /\ rigFrames > 0)
       => /\ now.browsLeft.positionY = level + tilt
          /\ now.browsRight.positionY = level - tilt
          /\ now.browsLeft.positionY + now.browsRight.positionY = 2 * level
          /\ now.browsRight.rotationZ = 0 - now.browsLeft.rotationZ

\* A 3D frame rendered at a positive excitation for an emotion that lifts
\* the brows.
C35_Witness ==
  /\ rigMode = "3d"
  /\ rigFrames > 0
  /\ rigAmplitude > 0
  /\ rigEmotion.browLift # 0

====
